---- MODULE Spec2Model ----
(***************************************************************************)
(* Charge dispatch, webhook verification and the transaction ledger of the *)
(* payment backend (backend_go).  Requests run concurrently in slots; each *)
(* gateway call and each database statement of a handler is one step.      *)
(***************************************************************************)
EXTENDS Integers, Sequences, FiniteSets, TLC

\* ------------------------------------------------------------------ bounds
NumSlots == 2          \* requests in flight at the same time
MaxRequests == 3       \* requests accepted in one behaviour

\* ------------------------------------------------------- program constants
StatusOK == 200
StatusBadRequest == 400
StatusNotFound == 404
StatusMethodNotAllowed == 405
StatusInternalServerError == 500
SatangPerTHB == 100

Slots == 1..NumSlots
ChargeIds == {"chrg_1", "chrg_2"}
Users == {1, 2}
NilUser == 0                       \* a nil *uint
NoResponse == 0

\* ------------------------------------------------------------ text values
\* A string that the code parses or formats is a sequence of characters.
Digits == <<"0", "1", "2", "3", "4", "5", "6", "7", "8", "9">>

DigitValue(ch) == (CHOOSE i \in 1..10 : Digits[i] = ch) - 1

IsDigit(ch) == \E i \in 1..10 : Digits[i] = ch

RECURSIVE DigitsValue(_)
DigitsValue(s) ==
  IF Len(s) = 0 THEN 0
  ELSE 10 * DigitsValue(SubSeq(s, 1, Len(s) - 1)) + DigitValue(s[Len(s)])

\* 2^32 - 1, the largest value of bit size 32, as decimal digits
MaxUint32 == <<"4", "2", "9", "4", "9", "6", "7", "2", "9", "5">>

RECURSIVE StripZeros(_)
StripZeros(s) == IF Len(s) > 1 /\ s[1] = "0" THEN StripZeros(Tail(s)) ELSE s

RECURSIVE DigitsLeq(_, _)
DigitsLeq(a, b) ==
  IF Len(a) = 0 THEN TRUE
  ELSE IF DigitValue(a[1]) # DigitValue(b[1]) THEN DigitValue(a[1]) < DigitValue(b[1])
  ELSE DigitsLeq(Tail(a), Tail(b))

FitsUint32(s) ==
  LET z == StripZeros(s) IN
  Len(z) < Len(MaxUint32) \/ (Len(z) = Len(MaxUint32) /\ DigitsLeq(z, MaxUint32))

\* strconv.ParseUint(s, 10, 32): ok iff s is a non-empty run of digits that fits
ParseUint(s) ==
  IF Len(s) > 0 /\ (\A i \in 1..Len(s) : IsDigit(s[i])) /\ FitsUint32(s)
  THEN [ok |-> TRUE, n |-> DigitsValue(s)]
  ELSE [ok |-> FALSE, n |-> 0]

\* 2^64 - 1, the largest value of bit size 64, as decimal digits
MaxUint64 ==
  <<"1", "8", "4", "4", "6", "7", "4", "4", "0", "7",
    "3", "7", "0", "9", "5", "5", "1", "6", "1", "5">>

FitsUint64(s) ==
  LET z == StripZeros(s) IN
  Len(z) < Len(MaxUint64) \/ (Len(z) = Len(MaxUint64) /\ DigitsLeq(z, MaxUint64))

\* strconv.ParseUint(s, 10, 64); the value is kept as its decimal digits without
\* leading zeros.
ParseUint64(s) ==
  IF Len(s) > 0 /\ (\A i \in 1..Len(s) : IsDigit(s[i])) /\ FitsUint64(s)
  THEN [ok |-> TRUE, digits |-> StripZeros(s)]
  ELSE [ok |-> FALSE, digits |-> <<>>]

\* fmt.Sprintf("%d", n)
RECURSIVE FormatUint(_)
FormatUint(n) ==
  IF n < 10 THEN <<Digits[n + 1]>>
  ELSE FormatUint(n \div 10) \o <<Digits[(n % 10) + 1]>>

\* ---------------------------------------------------------------- metadata
\* map[string]interface{}: nil, or a set of entries, one per key.
MetaString(k, s) == [k |-> k, t |-> "string", s |-> s, n |-> 0]
MetaNumber(k, n) == [k |-> k, t |-> "float64", s |-> <<>>, n |-> n]
MetaBool(k) == [k |-> k, t |-> "bool", s |-> <<>>, n |-> 0]
NilMeta == [nil |-> TRUE, kv |-> {}]
MakeMeta(entries) == [nil |-> FALSE, kv |-> entries]
MetaHas(m, k) == \E e \in m.kv : e.k = k
MetaGet(m, k) == CHOOSE e \in m.kv : e.k = k
MetaSet(m, e) == [nil |-> FALSE, kv |-> {x \in m.kv : x.k # e.k} \cup {e}]

\* ------------------------------------------------------------------ charge
\* omise.Charge as the gateway returns it; "" is a nil *string / empty string,
\* source_type "" is a nil Source or an empty Source.Type.
NoCharge ==
  [id |-> "", amount |-> 0, currency |-> "", status |-> "",
   failure_code |-> "", failure_message |-> "", has_source |-> FALSE,
   source_type |-> "", metadata |-> NilMeta]

GatewayStatuses == {"pending", "successful", "failed"}

\* ----------------------------------------------------------- money (THB)
\* A balance is a decimal number of major units: whole units and hundredths.
ZeroTHB == [units |-> 0, satang |-> 0]

\* float64(charge.Amount) / 100.0
amountTHB(amount) ==
  [units |-> amount \div SatangPerTHB, satang |-> amount % SatangPerTHB]

\* balance + ?
AddTHB(b, x) ==
  [units |-> b.units + x.units + ((b.satang + x.satang) \div SatangPerTHB),
   satang |-> (b.satang + x.satang) % SatangPerTHB]

\* -------------------------------------------------------- ledger helpers
\* Mutant: the metadata of the charge is read before the supplied user.
extractUserIDFromCharge_MetadataFirst(charge, userID) ==
  IF charge.metadata.nil THEN userID
  ELSE IF MetaHas(charge.metadata, "user_id")
       THEN LET v == MetaGet(charge.metadata, "user_id") IN
            CASE v.t = "string" ->
                   IF ParseUint(v.s).ok THEN ParseUint(v.s).n ELSE userID
              [] v.t = "float64" -> v.n
              [] OTHER -> userID
       ELSE userID

extractUserIDFromCharge(charge, userID) ==
  IF userID # NilUser \/ charge.metadata.nil THEN userID
  ELSE IF MetaHas(charge.metadata, "user_id")
       THEN LET v == MetaGet(charge.metadata, "user_id") IN
            CASE v.t = "string" ->
                   IF ParseUint(v.s).ok THEN ParseUint(v.s).n ELSE userID
              [] v.t = "float64" -> v.n
              [] OTHER -> userID
       ELSE userID

\* Mutant: the type of a source is taken also when it is empty.
determineChannel_AnyType(charge) ==
  IF charge.has_source THEN charge.source_type
  ELSE "card"

determineChannel(charge) ==
  IF charge.has_source /\ charge.source_type # "" THEN charge.source_type
  ELSE "card"

\* The models.Transaction value upsertTransactionFromCharge builds (ID unset).
TransactionFromCharge(charge, userID) ==
  [id |-> 0,
   user_id |-> extractUserIDFromCharge(charge, userID),
   charge_id |-> charge.id,
   amount_satang |-> charge.amount,
   currency |-> charge.currency,
   channel |-> determineChannel(charge),
   status |-> charge.status,
   failure_code |-> charge.failure_code,
   failure_message |-> charge.failure_message,
   raw_payload |-> charge,
   meta |-> charge.metadata]

\* Mutant: the conflict update leaves the status column out.
AssignColumns_NoStatus(old, new) ==
  [old EXCEPT !.failure_code = new.failure_code,
              !.failure_message = new.failure_message,
              !.amount_satang = new.amount_satang,
              !.currency = new.currency,
              !.channel = new.channel,
              !.raw_payload = new.raw_payload,
              !.meta = new.meta,
              !.user_id = new.user_id]

\* The columns DoUpdates assigns from the proposed row on a charge_id conflict.
AssignColumns(old, new) ==
  [old EXCEPT !.status = new.status,
              !.failure_code = new.failure_code,
              !.failure_message = new.failure_message,
              !.amount_satang = new.amount_satang,
              !.currency = new.currency,
              !.channel = new.channel,
              !.raw_payload = new.raw_payload,
              !.meta = new.meta,
              !.user_id = new.user_id]

NoTransaction == TransactionFromCharge(NoCharge, NilUser)

RowsOf(l, c) == {i \in 1..Len(l) : l[i].charge_id = c}

\* Mutant: a plain insert, with no conflict clause and no unique index.
OnConflictCreate_InsertOnly(l, tx) == Append(l, [tx EXCEPT !.id = Len(l) + 1])

\* Mutant: the update of the conflict clause reaches every row.
OnConflictCreate_EveryRow(l, tx) ==
  IF RowsOf(l, tx.charge_id) # {}
  THEN [i \in 1..Len(l) |-> AssignColumns(l[i], tx)]
  ELSE Append(l, [tx EXCEPT !.id = Len(l) + 1])

\* INSERT ... ON CONFLICT (charge_id) DO UPDATE SET ..., one atomic statement.
OnConflictCreate(l, tx) ==
  IF RowsOf(l, tx.charge_id) # {}
  THEN [i \in 1..Len(l) |->
          IF l[i].charge_id = tx.charge_id THEN AssignColumns(l[i], tx) ELSE l[i]]
  ELSE Append(l, [tx EXCEPT !.id = Len(l) + 1])

\* ------------------------------------------------------- gateway events
\* What RetrieveEvent answers for each event id the gateway knows: the event
\* key and the object embedded in its data.
Events ==
  {[id |-> "evnt_1", key |-> "charge.complete", data_object |-> "charge", data_id |-> "chrg_1"],
   [id |-> "evnt_2", key |-> "charge.complete", data_object |-> "charge", data_id |-> "chrg_2"],
   [id |-> "evnt_3", key |-> "charge.create", data_object |-> "charge", data_id |-> "chrg_1"],
   [id |-> "evnt_4", key |-> "customer.update", data_object |-> "customer", data_id |-> "cust_1"],
   [id |-> "evnt_5", key |-> "charge.failed", data_object |-> "", data_id |-> ""]}

NoEvent == [id |-> "", key |-> "", data_object |-> "", data_id |-> ""]
EventIds == {e.id : e \in Events}
EventById(id) == CHOOSE e \in Events : e.id = id

\* ------------------------------------------------------ webhook envelopes
\* The request body: the two fields the handlers decode, and fields of the
\* body they do not decode (a claimed status and amount).
Envelope(object, id, status) ==
  [malformed |-> FALSE, object |-> object, id |-> id, status |-> status,
   amount |-> IF status = "successful" THEN 999900 ELSE 1]

NoEnvelope == Envelope("", "", "")
ClaimedStatuses == {"successful", "failed"}

Envelopes ==
  {Envelope("event", e, "successful") : e \in EventIds}
  \cup {Envelope("charge", c, "successful") : c \in ChargeIds}
  \cup {Envelope("event", "evnt_1", "failed"), Envelope("charge", "chrg_1", "failed"),
        Envelope("refund", "rfnd_1", "successful"),
        Envelope("", "evnt_1", "successful"),
        Envelope("event", "", "successful"),
        Envelope("charge", "", "successful"),
        [NoEnvelope EXCEPT !.malformed = TRUE]}

\* The envelopes of the concurrent runs.
LedgerEnvelopes ==
  {Envelope("event", "evnt_1", "successful"), Envelope("charge", "chrg_2", "successful")}

Methods == {"POST", "GET"}

\* ------------------------------------------------------- charge requests
\* A loosely typed JSON value of the card map: absent, string, number, other.
Field(t, s, n) == [t |-> t, s |-> s, n |-> n]
Absent == Field("absent", <<>>, 0)
Str(s) == Field("string", s, 0)
Num(n) == Field("float64", <<>>, n)
Other == Field("bool", <<>>, 0)

\* strconv.Atoi
Atoi(s) ==
  LET signed == Len(s) > 0 /\ s[1] \in {"+", "-"}
      body == IF signed THEN Tail(s) ELSE s
      ok == Len(body) > 0 /\ \A i \in 1..Len(body) : IsDigit(body[i])
  IN  IF ok
      THEN [ok |-> TRUE, n |-> IF signed /\ s[1] = "-" THEN 0 - DigitsValue(body) ELSE DigitsValue(body)]
      ELSE [ok |-> FALSE, n |-> 0]

\* strconv.Itoa
Itoa(n) == IF n < 0 THEN <<"-">> \o FormatUint(0 - n) ELSE FormatUint(n)

NilCard ==
  [nil |-> TRUE, name |-> Absent, number |-> Absent, expiration_month |-> Absent,
   expiration_year |-> Absent, security_code |-> Absent]

TestCard ==
  [nil |-> FALSE, name |-> Str(<<"A">>), number |-> Str(<<"4", "2">>),
   expiration_month |-> Str(<<"1", "2">>), expiration_year |-> Num(2030),
   security_code |-> Num(123)]

BaseRequest ==
  [amount |-> 5000, currency |-> "THB", paymentType |-> "credit_card",
   token |-> "tokn_1", returnURI |-> "", metadata |-> NilMeta, card |-> NilCard,
   bank |-> "", userID |-> NilUser, headerUserID |-> <<>>, queryUserID |-> <<>>]

NoRequest == [BaseRequest EXCEPT !.amount = 0, !.currency = "", !.paymentType = "", !.token = ""]

\* The requests that reach the ledger: a card charge for user 1, a card charge
\* from raw card fields with no user, a PromptPay charge for user 2.
LedgerRequests ==
  {[BaseRequest EXCEPT !.userID = 1],
   [BaseRequest EXCEPT !.token = "", !.card = TestCard],
   [BaseRequest EXCEPT !.paymentType = "promptpay", !.token = "", !.amount = 150, !.userID = 2]}

ConcurrentRequests == {r \in LedgerRequests : r.token # ""}

\* The request bodies the model submits to POST /payments/charge.
PaymentRequests ==
  {[BaseRequest EXCEPT !.userID = 1],
   [BaseRequest EXCEPT !.headerUserID = <<"2">>],
   [BaseRequest EXCEPT !.metadata = MakeMeta({MetaNumber("user_id", 2)})],
   [BaseRequest EXCEPT !.token = "", !.card = TestCard, !.userID = 1],
   [BaseRequest EXCEPT !.token = "", !.card = [TestCard EXCEPT !.expiration_month = Str(<<"x">>)]],
   [BaseRequest EXCEPT !.token = "", !.card = [TestCard EXCEPT !.name = Absent]],
   [BaseRequest EXCEPT !.token = ""],
   [BaseRequest EXCEPT !.paymentType = "promptpay", !.token = "", !.amount = 150, !.userID = 2],
   [BaseRequest EXCEPT !.paymentType = "promptpay", !.token = "",
                       !.metadata = MakeMeta({MetaString("user_id", <<"x">>)})],
   [BaseRequest EXCEPT !.paymentType = "internet_banking", !.token = "", !.bank = "bbl",
                       !.returnURI = "https://app/return", !.userID = 1],
   [BaseRequest EXCEPT !.paymentType = "internet_banking", !.token = "", !.bank = "bbl"],
   [BaseRequest EXCEPT !.paymentType = "internet_banking", !.token = "",
                       !.returnURI = "https://app/return"],
   [BaseRequest EXCEPT !.paymentType = "alipay"],
   [BaseRequest EXCEPT !.amount = 0],
   [BaseRequest EXCEPT !.currency = ""]}

\* getUserIDFromRequest: body, then the X-User-ID header, then the query.
getUserIDFromRequest(req) ==
  IF req.userID # NilUser THEN req.userID
  ELSE IF req.headerUserID # <<>> /\ ParseUint(req.headerUserID).ok
       THEN ParseUint(req.headerUserID).n
  ELSE IF req.queryUserID # <<>> /\ ParseUint(req.queryUserID).ok
       THEN ParseUint(req.queryUserID).n
  ELSE NilUser

\* The metadata each process* function submits with the charge.
AttachUserID(req) ==
  IF req.userID # NilUser
  THEN MetaSet(req.metadata, MetaString("user_id", FormatUint(req.userID)))
  ELSE req.metadata

\* The three type switches of processCreditCard over the card map.
IntField(f) ==
  CASE f.t = "float64" -> [ok |-> TRUE, n |-> f.n]
    [] f.t = "string" -> Atoi(f.s)
    [] OTHER -> [ok |-> FALSE, n |-> 0]

CodeField(f) ==
  CASE f.t = "string" -> [ok |-> TRUE, s |-> f.s]
    [] f.t = "float64" -> [ok |-> TRUE, s |-> Itoa(f.n)]
    [] OTHER -> [ok |-> FALSE, s |-> <<>>]

CardFieldsOK(card) ==
  /\ IntField(card.expiration_month).ok
  /\ IntField(card.expiration_year).ok
  /\ CodeField(card.security_code).ok

\* ------------------------------------------------------------------ state
VARIABLES
  gw,        \* the gateway's charges, by charge id (NoCharge: not created)
  ledger,    \* the transactions table, in insertion order
  balance,   \* users.balance, by user id
  slot,      \* the requests in flight, their locals and their responses
  started,   \* requests accepted so far
  credits    \* history: balance credits applied, by charge id

vars == <<gw, ledger, balance, slot, started, credits>>

Call(op, ref, amount, currency, ok) ==
  [op |-> op, ref |-> ref, amount |-> amount, currency |-> currency, ok |-> ok,
   ret |-> NoCharge]

WebhookHandlers ==
  {"PaymentHandler", "PaymentHandlerKeyed", "WebhookHandlerHTTP", "WebhookHandlerFiber"}

\* A retrieval and what it returned.
Retrieval(op, ref, ok, ret) ==
  [op |-> op, ref |-> ref, amount |-> 0, currency |-> "", ok |-> ok, ret |-> ret]

\* A slot holds the handler's locals (req .. ch), its response (resp, body) and
\* history: the gateway calls made, whether and what it wrote to the ledger, the
\* row it found there, whether it credited and the balances before, and the
\* charges that webhook deliveries running at the same time have credited.
Idle ==
  [handler |-> "", pc |-> "idle", method |-> "", env |-> NoEnvelope, req |-> NoRequest,
   userID |-> NilUser, meta |-> NilMeta, srcType |-> "", ref |-> "", chargeID |-> "", ev |-> NoEvent,
   ch |-> NoCharge, resp |-> NoResponse, body |-> "", calls |-> <<>>,
   wrote |-> FALSE, written |-> NoTransaction, before |-> NoTransaction,
   upsertErr |-> FALSE, credited |-> FALSE, balanceBefore |-> [u \in Users |-> ZeroTHB],
   overlap |-> {}, id |-> <<>>, tx |-> NoTransaction]

Init ==
  /\ gw = [c \in ChargeIds |-> NoCharge]
  /\ ledger = <<>>
  /\ balance = [u \in Users |-> ZeroTHB]
  /\ slot = [s \in Slots |-> Idle]
  /\ started = 0
  /\ credits = [c \in ChargeIds |-> 0]

\* An answered request leaves its slot before anything else is observed.
Running == \A s \in Slots : slot[s].pc # "done"

\* A request arrives and takes the first free slot.
Accept(s) ==
  /\ Running /\ started < MaxRequests
  /\ slot[s].pc = "idle" /\ \A q \in Slots : q < s => slot[q].pc # "idle"

\* Request s stands at step pc of handler h.
At(s, h, pc) == Running /\ slot[s].handler = h /\ slot[s].pc = pc

Respond(r, code, body) == [r EXCEPT !.pc = "done", !.resp = code, !.body = body]

Logged(r, call) == [r EXCEPT !.calls = Append(@, call)]

\* The client drops the connection state of an answered request.
Finish(s) ==
  /\ slot[s].pc = "done"
  /\ slot' = [slot EXCEPT ![s] = Idle]
  /\ UNCHANGED <<gw, ledger, balance, started, credits>>

\* ---------------------------------------------------------------- gateway
\* The gateway settles a charge on its own schedule.
GatewayAdvance(c) ==
  /\ Running /\ gw[c].id # ""
  /\ \E st \in GatewayStatuses :
       /\ gw[c].status = "pending" /\ st \in {"successful", "failed"}
       /\ gw' = [gw EXCEPT ![c] =
                   [@ EXCEPT !.status = st,
                             !.failure_code = IF st = "failed" THEN "payment_rejected" ELSE "",
                             !.failure_message = IF st = "failed" THEN "rejected" ELSE ""]]
  /\ UNCHANGED <<ledger, balance, slot, started, credits>>

\* -------------------------------------------- upsertTransactionFromCharge
\* The foreign key of transactions.user_id rejects a user that does not exist.
UpsertAccepted(tx, dbok) == dbok /\ (tx.user_id = NilUser \/ tx.user_id \in Users)

RowBefore(l, c) == IF RowsOf(l, c) = {} THEN NoTransaction ELSE l[CHOOSE i \in RowsOf(l, c) : TRUE]

\* Mutant: the balance statement follows every accepted upsert with a user.
UpsertStatement_AnyStatus(l, charge, userID, dbok) ==
  LET tx == TransactionFromCharge(charge, userID) IN
  IF ~UpsertAccepted(tx, dbok)
  THEN [ledger |-> l, err |-> TRUE, tx |-> tx, before |-> RowBefore(l, tx.charge_id),
        creditUser |-> NilUser]
  ELSE [ledger |-> OnConflictCreate(l, tx), err |-> FALSE, tx |-> tx,
        before |-> RowBefore(l, tx.charge_id),
        creditUser |-> tx.user_id]

\* The insert-or-update statement and what the function does next: return the
\* error, go on to the balance statement, or return nil.
UpsertStatement(l, charge, userID, dbok) ==
  LET tx == TransactionFromCharge(charge, userID) IN
  IF ~UpsertAccepted(tx, dbok)
  THEN [ledger |-> l, err |-> TRUE, tx |-> tx, before |-> RowBefore(l, tx.charge_id),
        creditUser |-> NilUser]
  ELSE [ledger |-> OnConflictCreate(l, tx), err |-> FALSE, tx |-> tx,
        before |-> RowBefore(l, tx.charge_id),
        creditUser |-> IF charge.status = "successful" /\ tx.user_id # NilUser
                       THEN tx.user_id ELSE NilUser]

\* The slot after the upsert statement of a handler that answers errStatus to an
\* upsert error and okStatus otherwise.
AfterUpsert(r, out, errStatus, errBody, okStatus, okBody) ==
  LET w == [r EXCEPT !.wrote = TRUE, !.written = out.tx, !.before = out.before] IN
  IF out.err THEN Respond([r EXCEPT !.upsertErr = TRUE], errStatus, errBody)
  ELSE IF out.creditUser # NilUser
       THEN [w EXCEPT !.userID = out.creditUser, !.pc = "balance",
                      !.resp = okStatus, !.body = okBody]
       ELSE Respond(w, okStatus, okBody)

\* UPDATE users SET balance = balance + ? WHERE id = ?; a failure is only logged.
UpdateBalance(s) ==
  /\ Running /\ slot[s].pc = "balance"
  /\ \E dbok \in BOOLEAN :
       LET r == slot[s] IN
       /\ balance' = IF dbok
                     THEN [balance EXCEPT ![r.userID] = AddTHB(@, amountTHB(r.ch.amount))]
                     ELSE balance
       /\ credits' = IF dbok THEN [credits EXCEPT ![r.ch.id] = @ + 1] ELSE credits
       /\ slot' = [q \in Slots |->
                     IF q = s THEN [r EXCEPT !.pc = "done", !.credited = dbok,
                                             !.balanceBefore = balance]
                     ELSE IF dbok /\ slot[q].pc # "idle" /\ r.handler \in WebhookHandlers
                          THEN [slot[q] EXCEPT !.overlap = @ \cup {r.ch.id}]
                     ELSE slot[q]]
  /\ UNCHANGED <<gw, ledger, started>>

\* ------------------------------------------------ gateway client port
\* Each call fails when the network does (net = FALSE) or the gateway has no
\* such object.
GatewayRetrieveEvent(id, net) ==
  IF net /\ id \in EventIds THEN [ok |-> TRUE, ev |-> EventById(id)]
  ELSE [ok |-> FALSE, ev |-> NoEvent]

GatewayRetrieveCharge(g, id, net) ==
  IF net /\ id \in ChargeIds /\ g[id].id # "" THEN [ok |-> TRUE, ch |-> g[id]]
  ELSE [ok |-> FALSE, ch |-> NoCharge]

FreeChargeIds(g) == {c \in ChargeIds : g[c].id = ""}

\* The charge the gateway creates: it echoes amount, currency and metadata,
\* carries the type of the source it was made from, and starts in status st.
GatewayNewCharge(g, amount, currency, srcType, meta, st) ==
  [id |-> CHOOSE c \in FreeChargeIds(g) : TRUE,
   amount |-> amount, currency |-> currency, status |-> st,
   failure_code |-> IF st = "failed" THEN "payment_rejected" ELSE "",
   failure_message |-> IF st = "failed" THEN "rejected" ELSE "",
   has_source |-> srcType # "", source_type |-> srcType,
   metadata |-> [nil |-> FALSE, kv |-> meta.kv]]

InitialStatuses(srcType) ==
  IF srcType = "" THEN {"successful", "pending", "failed"} ELSE {"pending"}

\* ------------------------------------ PaymentHandler.CreateCharge (direct)
\* Mutant: an internet_banking request is dispatched whatever its bank and return address.
CreateCharge_Begin_NoBankCheck(s, req) ==
  /\ Accept(s)
  /\ started' = started + 1
  /\ LET r0 == [Idle EXCEPT !.handler = "CreateCharge", !.method = "POST", !.req = req]
         r1 == [r0 EXCEPT !.userID = getUserIDFromRequest(req), !.meta = AttachUserID(req)]
         next ==
           IF req.amount <= 0 \/ req.currency = "" THEN Respond(r0, StatusBadRequest, "error")
           ELSE CASE req.paymentType = "credit_card" ->
                       IF req.token # "" THEN [r1 EXCEPT !.pc = "createCharge", !.ref = req.token]
                       ELSE IF req.card.nil THEN Respond(r1, StatusInternalServerError, "error")
                       ELSE IF ~CardFieldsOK(req.card)
                            THEN Respond(r1, StatusInternalServerError, "error")
                       ELSE [r1 EXCEPT !.pc = "createToken"]
                  [] req.paymentType = "promptpay" ->
                       [r1 EXCEPT !.pc = "createSource", !.srcType = "promptpay"]
                  [] req.paymentType = "internet_banking" ->
                       IF FALSE
                       THEN Respond(r1, StatusInternalServerError, "error")
                       ELSE [r1 EXCEPT !.pc = "createSource",
                                       !.srcType = "internet_banking_" \o req.bank]
                  [] OTHER -> Respond(r0, StatusBadRequest, "error")
     IN slot' = [slot EXCEPT ![s] = next]
  /\ UNCHANGED <<gw, ledger, balance, credits>>

\* Mutant: a card request with no token is tokenized whether or not it carries a card.
CreateCharge_Begin_NoCardCheck(s, req) ==
  /\ Accept(s)
  /\ started' = started + 1
  /\ LET r0 == [Idle EXCEPT !.handler = "CreateCharge", !.method = "POST", !.req = req]
         r1 == [r0 EXCEPT !.userID = getUserIDFromRequest(req), !.meta = AttachUserID(req)]
         next ==
           IF req.amount <= 0 \/ req.currency = "" THEN Respond(r0, StatusBadRequest, "error")
           ELSE CASE req.paymentType = "credit_card" ->
                       IF req.token # "" THEN [r1 EXCEPT !.pc = "createCharge", !.ref = req.token]
                       ELSE IF FALSE THEN Respond(r1, StatusInternalServerError, "error")
                       ELSE IF ~req.card.nil /\ ~CardFieldsOK(req.card)
                            THEN Respond(r1, StatusInternalServerError, "error")
                       ELSE [r1 EXCEPT !.pc = "createToken"]
                  [] req.paymentType = "promptpay" ->
                       [r1 EXCEPT !.pc = "createSource", !.srcType = "promptpay"]
                  [] req.paymentType = "internet_banking" ->
                       IF req.bank = "" \/ req.returnURI = ""
                       THEN Respond(r1, StatusInternalServerError, "error")
                       ELSE [r1 EXCEPT !.pc = "createSource",
                                       !.srcType = "internet_banking_" \o req.bank]
                  [] OTHER -> Respond(r0, StatusBadRequest, "error")
     IN slot' = [slot EXCEPT ![s] = next]
  /\ UNCHANGED <<gw, ledger, balance, credits>>

\* Mutant: the amount is not checked before dispatch.
CreateCharge_Begin_NoAmountCheck(s, req) ==
  /\ Accept(s)
  /\ started' = started + 1
  /\ LET r0 == [Idle EXCEPT !.handler = "CreateCharge", !.method = "POST", !.req = req]
         r1 == [r0 EXCEPT !.userID = getUserIDFromRequest(req), !.meta = AttachUserID(req)]
         next ==
           IF req.currency = "" THEN Respond(r0, StatusBadRequest, "error")
           ELSE CASE req.paymentType = "credit_card" ->
                       IF req.token # "" THEN [r1 EXCEPT !.pc = "createCharge", !.ref = req.token]
                       ELSE IF req.card.nil THEN Respond(r1, StatusInternalServerError, "error")
                       ELSE IF ~CardFieldsOK(req.card)
                            THEN Respond(r1, StatusInternalServerError, "error")
                       ELSE [r1 EXCEPT !.pc = "createToken"]
                  [] req.paymentType = "promptpay" ->
                       [r1 EXCEPT !.pc = "createSource", !.srcType = "promptpay"]
                  [] req.paymentType = "internet_banking" ->
                       IF req.bank = "" \/ req.returnURI = ""
                       THEN Respond(r1, StatusInternalServerError, "error")
                       ELSE [r1 EXCEPT !.pc = "createSource",
                                       !.srcType = "internet_banking_" \o req.bank]
                  [] OTHER -> Respond(r0, StatusBadRequest, "error")
     IN slot' = [slot EXCEPT ![s] = next]
  /\ UNCHANGED <<gw, ledger, balance, credits>>

\* Body checks, user resolution and the part of process* before its first
\* gateway call.
CreateCharge_Begin(s, req) ==
  /\ Accept(s)
  /\ started' = started + 1
  /\ LET r0 == [Idle EXCEPT !.handler = "CreateCharge", !.method = "POST", !.req = req]
         r1 == [r0 EXCEPT !.userID = getUserIDFromRequest(req), !.meta = AttachUserID(req)]
         next ==
           IF req.amount <= 0 \/ req.currency = "" THEN Respond(r0, StatusBadRequest, "error")
           ELSE CASE req.paymentType = "credit_card" ->
                       IF req.token # "" THEN [r1 EXCEPT !.pc = "createCharge", !.ref = req.token]
                       ELSE IF req.card.nil THEN Respond(r1, StatusInternalServerError, "error")
                       ELSE IF ~CardFieldsOK(req.card)
                            THEN Respond(r1, StatusInternalServerError, "error")
                       ELSE [r1 EXCEPT !.pc = "createToken"]
                  [] req.paymentType = "promptpay" ->
                       [r1 EXCEPT !.pc = "createSource", !.srcType = "promptpay"]
                  [] req.paymentType = "internet_banking" ->
                       IF req.bank = "" \/ req.returnURI = ""
                       THEN Respond(r1, StatusInternalServerError, "error")
                       ELSE [r1 EXCEPT !.pc = "createSource",
                                       !.srcType = "internet_banking_" \o req.bank]
                  [] OTHER -> Respond(r0, StatusBadRequest, "error")
     IN slot' = [slot EXCEPT ![s] = next]
  /\ UNCHANGED <<gw, ledger, balance, credits>>

CreateCharge_CreateToken(s) ==
  /\ At(s, "CreateCharge", "createToken")
  /\ \E net \in BOOLEAN :
       LET r == Logged(slot[s], Call("CreateToken", "", 0, "", net)) IN
       slot' = [slot EXCEPT ![s] =
                  IF net THEN [r EXCEPT !.pc = "createCharge", !.ref = "tokn_2"]
                  ELSE Respond(r, StatusInternalServerError, "error")]
  /\ UNCHANGED <<gw, ledger, balance, started, credits>>

\* Mutant: the source is created for a fixed amount.
CreateCharge_CreateSource_FixedAmount(s) ==
  /\ At(s, "CreateCharge", "createSource")
  /\ \E net \in BOOLEAN :
       LET r == Logged(slot[s], Call("CreateSource", slot[s].srcType, SatangPerTHB,
                                     slot[s].req.currency, net)) IN
       slot' = [slot EXCEPT ![s] =
                  IF net THEN [r EXCEPT !.pc = "createCharge", !.ref = "src_" \o r.srcType]
                  ELSE Respond(r, StatusInternalServerError, "error")]
  /\ UNCHANGED <<gw, ledger, balance, started, credits>>

\* Mutant: the error of CreateSource is dropped and the charge is created anyway.
CreateCharge_CreateSource_Unchecked(s) ==
  /\ At(s, "CreateCharge", "createSource")
  /\ \E net \in BOOLEAN :
       LET r == Logged(slot[s], Call("CreateSource", slot[s].srcType, slot[s].req.amount,
                                     slot[s].req.currency, net)) IN
       slot' = [slot EXCEPT ![s] =
                  [r EXCEPT !.pc = "createCharge", !.ref = IF net THEN "src_" \o r.srcType ELSE ""]]
  /\ UNCHANGED <<gw, ledger, balance, started, credits>>

CreateCharge_CreateSource(s) ==
  /\ At(s, "CreateCharge", "createSource")
  /\ \E net \in BOOLEAN :
       LET r == Logged(slot[s], Call("CreateSource", slot[s].srcType, slot[s].req.amount,
                                     slot[s].req.currency, net)) IN
       slot' = [slot EXCEPT ![s] =
                  IF net THEN [r EXCEPT !.pc = "createCharge", !.ref = "src_" \o r.srcType]
                  ELSE Respond(r, StatusInternalServerError, "error")]
  /\ UNCHANGED <<gw, ledger, balance, started, credits>>

\* createCharge: the gateway call and the error return of CreateCharge.
CreateCharge_CreateCharge(s) ==
  /\ At(s, "CreateCharge", "createCharge")
  /\ \E net \in BOOLEAN, st \in InitialStatuses(slot[s].srcType) :
       LET ok == net /\ FreeChargeIds(gw) # {}
           r == Logged(slot[s], Call("CreateCharge", slot[s].ref, slot[s].req.amount,
                                     slot[s].req.currency, ok))
           ch == GatewayNewCharge(gw, r.req.amount, r.req.currency, r.srcType, r.meta, st)
       IN  /\ ok \/ st = "pending"
           /\ gw' = IF ok THEN [gw EXCEPT ![ch.id] = ch] ELSE gw
           /\ slot' = [slot EXCEPT ![s] =
                         IF ok THEN [r EXCEPT !.pc = "upsert", !.ch = ch, !.chargeID = ch.id]
                         ELSE Respond(r, StatusInternalServerError, "error")]
  /\ UNCHANGED <<ledger, balance, started, credits>>

\* Mutant: an upsert error is answered as a server error.
CreateCharge_Upsert_Failing(s) ==
  /\ At(s, "CreateCharge", "upsert")
  /\ \E dbok \in BOOLEAN :
       LET out == UpsertStatement(ledger, slot[s].ch, slot[s].userID, dbok) IN
       /\ ledger' = out.ledger
       /\ slot' = [slot EXCEPT ![s] =
                     AfterUpsert(slot[s], out, StatusInternalServerError, "error",
                                 StatusOK, "charge")]
  /\ UNCHANGED <<gw, balance, started, credits>>

\* The upsert of the created charge; its error is logged, not answered.
CreateCharge_Upsert(s) ==
  /\ At(s, "CreateCharge", "upsert")
  /\ \E dbok \in BOOLEAN :
       LET out == UpsertStatement(ledger, slot[s].ch, slot[s].userID, dbok) IN
       /\ ledger' = out.ledger
       /\ slot' = [slot EXCEPT ![s] =
                     AfterUpsert(slot[s], out, StatusOK, "charge", StatusOK, "charge")]
  /\ UNCHANGED <<gw, balance, started, credits>>

\* ------------- PaymentHandler.HandleWebhook (object discriminator, fiber)
\* Mutant: the envelope id is not checked for being empty.
PaymentHandler_HandleWebhook_Begin_AnyID(s, env) ==
  /\ Accept(s)
  /\ started' = started + 1
  /\ LET r == [Idle EXCEPT !.handler = "PaymentHandler", !.method = "POST", !.env = env]
         next ==
           IF env.malformed THEN Respond(r, StatusBadRequest, "error")
           ELSE CASE env.object = "event" -> [r EXCEPT !.pc = "retrieveEvent"]
                  [] env.object = "charge" -> [r EXCEPT !.pc = "retrieveCharge", !.chargeID = env.id]
                  [] OTHER -> Respond(r, StatusOK, "")
     IN slot' = [slot EXCEPT ![s] = next]
  /\ UNCHANGED <<gw, ledger, balance, credits>>

\* Decode the envelope and switch on its object.
PaymentHandler_HandleWebhook_Begin(s, env) ==
  /\ Accept(s)
  /\ started' = started + 1
  /\ LET r == [Idle EXCEPT !.handler = "PaymentHandler", !.method = "POST", !.env = env]
         next ==
           IF env.malformed \/ env.id = "" THEN Respond(r, StatusBadRequest, "error")
           ELSE CASE env.object = "event" -> [r EXCEPT !.pc = "retrieveEvent"]
                  [] env.object = "charge" -> [r EXCEPT !.pc = "retrieveCharge", !.chargeID = env.id]
                  [] OTHER -> Respond(r, StatusOK, "")
     IN slot' = [slot EXCEPT ![s] = next]
  /\ UNCHANGED <<gw, ledger, balance, credits>>

PaymentHandler_HandleWebhook_RetrieveEvent(s) ==
  /\ At(s, "PaymentHandler", "retrieveEvent")
  /\ \E net \in BOOLEAN :
       LET got == GatewayRetrieveEvent(slot[s].env.id, net)
           r == Logged(slot[s], Retrieval("RetrieveEvent", slot[s].env.id, got.ok, NoCharge))
       IN slot' = [slot EXCEPT ![s] =
            IF ~got.ok THEN Respond(r, StatusInternalServerError, "")
            ELSE IF got.ev.data_object # "charge" \/ got.ev.data_id = ""
                 THEN Respond([r EXCEPT !.ev = got.ev], StatusOK, "")
            ELSE [r EXCEPT !.ev = got.ev, !.chargeID = got.ev.data_id, !.pc = "retrieveCharge"]]
  /\ UNCHANGED <<gw, ledger, balance, started, credits>>

\* Mutant: the status of the envelope body is taken over into the snapshot.
PaymentHandler_HandleWebhook_RetrieveCharge_Trusting(s) ==
  /\ At(s, "PaymentHandler", "retrieveCharge")
  /\ \E net \in BOOLEAN :
       LET got == GatewayRetrieveCharge(gw, slot[s].chargeID, net)
           r == Logged(slot[s], Retrieval("RetrieveCharge", slot[s].chargeID, got.ok, got.ch))
       IN slot' = [slot EXCEPT ![s] =
            IF ~got.ok THEN Respond(r, StatusInternalServerError, "")
            ELSE [r EXCEPT !.ch = [got.ch EXCEPT !.status = r.env.status], !.pc = "upsert"]]
  /\ UNCHANGED <<gw, ledger, balance, started, credits>>

\* Mutant: a failed retrieval is logged and the handler goes on to the upsert.
PaymentHandler_HandleWebhook_RetrieveCharge_Unchecked(s) ==
  /\ At(s, "PaymentHandler", "retrieveCharge")
  /\ \E net \in BOOLEAN :
       LET got == GatewayRetrieveCharge(gw, slot[s].chargeID, net)
           r == Logged(slot[s], Retrieval("RetrieveCharge", slot[s].chargeID, got.ok, got.ch))
       IN slot' = [slot EXCEPT ![s] =
            [r EXCEPT !.ch = [got.ch EXCEPT !.id = r.chargeID], !.pc = "upsert"]]
  /\ UNCHANGED <<gw, ledger, balance, started, credits>>

PaymentHandler_HandleWebhook_RetrieveCharge(s) ==
  /\ At(s, "PaymentHandler", "retrieveCharge")
  /\ \E net \in BOOLEAN :
       LET got == GatewayRetrieveCharge(gw, slot[s].chargeID, net)
           r == Logged(slot[s], Retrieval("RetrieveCharge", slot[s].chargeID, got.ok, got.ch))
       IN slot' = [slot EXCEPT ![s] =
            IF ~got.ok THEN Respond(r, StatusInternalServerError, "")
            ELSE [r EXCEPT !.ch = got.ch, !.pc = "upsert"]]
  /\ UNCHANGED <<gw, ledger, balance, started, credits>>

PaymentHandler_HandleWebhook_Upsert(s) ==
  /\ At(s, "PaymentHandler", "upsert")
  /\ \E dbok \in BOOLEAN :
       LET out == UpsertStatement(ledger, slot[s].ch, NilUser, dbok) IN
       /\ ledger' = out.ledger
       /\ slot' = [slot EXCEPT ![s] =
                     AfterUpsert(slot[s], out, StatusInternalServerError, "", StatusOK, "")]
  /\ UNCHANGED <<gw, balance, started, credits>>

\* -------------------- PaymentHandler.HandleWebhook (event-key switch, fiber)
PaymentHandler_ChargeEventKeys ==
  {"charge.complete", "charge.capture", "charge.failed", "charge.expired", "charge.reversed"}

PaymentHandlerKeyed_HandleWebhook_Begin(s, env) ==
  /\ Accept(s)
  /\ started' = started + 1
  /\ LET r == [Idle EXCEPT !.handler = "PaymentHandlerKeyed", !.method = "POST", !.env = env]
     IN slot' = [slot EXCEPT ![s] =
          IF env.malformed \/ env.id = "" THEN Respond(r, StatusBadRequest, "error")
          ELSE [r EXCEPT !.pc = "retrieveEvent"]]
  /\ UNCHANGED <<gw, ledger, balance, credits>>

PaymentHandlerKeyed_HandleWebhook_RetrieveEvent(s) ==
  /\ At(s, "PaymentHandlerKeyed", "retrieveEvent")
  /\ \E net \in BOOLEAN :
       LET got == GatewayRetrieveEvent(slot[s].env.id, net)
           r == Logged(slot[s], Retrieval("RetrieveEvent", slot[s].env.id, got.ok, NoCharge))
       IN slot' = [slot EXCEPT ![s] =
            IF ~got.ok THEN Respond(r, StatusBadRequest, "error")
            ELSE IF got.ev.key \notin PaymentHandler_ChargeEventKeys
                 THEN Respond([r EXCEPT !.ev = got.ev], StatusOK, "")
            ELSE IF got.ev.data_object # "charge" \/ got.ev.data_id = ""
                 THEN Respond([r EXCEPT !.ev = got.ev], StatusOK, "")
            ELSE [r EXCEPT !.ev = got.ev, !.chargeID = got.ev.data_id, !.pc = "retrieveCharge"]]
  /\ UNCHANGED <<gw, ledger, balance, started, credits>>

PaymentHandlerKeyed_HandleWebhook_RetrieveCharge(s) ==
  /\ At(s, "PaymentHandlerKeyed", "retrieveCharge")
  /\ \E net \in BOOLEAN :
       LET got == GatewayRetrieveCharge(gw, slot[s].chargeID, net)
           r == Logged(slot[s], Retrieval("RetrieveCharge", slot[s].chargeID, got.ok, got.ch))
       IN slot' = [slot EXCEPT ![s] =
            IF ~got.ok THEN Respond(r, StatusOK, "")
            ELSE [r EXCEPT !.ch = got.ch, !.pc = "upsert"]]
  /\ UNCHANGED <<gw, ledger, balance, started, credits>>

\* The upsert error is logged and the handler answers 200.
PaymentHandlerKeyed_HandleWebhook_Upsert(s) ==
  /\ At(s, "PaymentHandlerKeyed", "upsert")
  /\ \E dbok \in BOOLEAN :
       LET out == UpsertStatement(ledger, slot[s].ch, NilUser, dbok) IN
       /\ ledger' = out.ledger
       /\ slot' = [slot EXCEPT ![s] = AfterUpsert(slot[s], out, StatusOK, "", StatusOK, "")]
  /\ UNCHANGED <<gw, balance, started, credits>>

\* ------------------------------------- the dbHandler / Upserter interface
\* UpsertTransactionFromCharge(*omise.Charge): the upsert with no known user.
UpsertTransactionFromCharge(l, charge, dbok) == UpsertStatement(l, charge, NilUser, dbok)

\* ------------------------------------ WebhookHandler.HandleWebhook (net/http)
WebhookHandler_ChargeEventKeys ==
  {"charge.complete", "charge.capture", "charge.failed", "charge.expired", "charge.reversed"}

WebhookHandlerHTTP_HandleWebhook_Begin(s, method, env) ==
  /\ Accept(s)
  /\ started' = started + 1
  /\ LET r == [Idle EXCEPT !.handler = "WebhookHandlerHTTP", !.method = method, !.env = env]
     IN slot' = [slot EXCEPT ![s] =
          IF method # "POST" THEN Respond(r, StatusMethodNotAllowed, "error")
          ELSE IF env.malformed \/ env.id = "" THEN Respond(r, StatusBadRequest, "error")
          ELSE [r EXCEPT !.pc = "retrieveEvent"]]
  /\ UNCHANGED <<gw, ledger, balance, credits>>

\* A return with nothing written to the ResponseWriter is answered 200.
WebhookHandlerHTTP_HandleWebhook_RetrieveEvent(s) ==
  /\ At(s, "WebhookHandlerHTTP", "retrieveEvent")
  /\ \E net \in BOOLEAN :
       LET got == GatewayRetrieveEvent(slot[s].env.id, net)
           r == Logged(slot[s], Retrieval("RetrieveEvent", slot[s].env.id, got.ok, NoCharge))
       IN slot' = [slot EXCEPT ![s] =
            IF ~got.ok THEN Respond(r, StatusBadRequest, "error")
            ELSE IF got.ev.key \notin WebhookHandler_ChargeEventKeys
                 THEN Respond([r EXCEPT !.ev = got.ev], StatusOK, "")
            ELSE IF got.ev.data_object # "charge" \/ got.ev.data_id = ""
                 THEN Respond([r EXCEPT !.ev = got.ev], StatusOK, "")
            ELSE [r EXCEPT !.ev = got.ev, !.chargeID = got.ev.data_id, !.pc = "retrieveCharge"]]
  /\ UNCHANGED <<gw, ledger, balance, started, credits>>

WebhookHandlerHTTP_HandleWebhook_RetrieveCharge(s) ==
  /\ At(s, "WebhookHandlerHTTP", "retrieveCharge")
  /\ \E net \in BOOLEAN :
       LET got == GatewayRetrieveCharge(gw, slot[s].chargeID, net)
           r == Logged(slot[s], Retrieval("RetrieveCharge", slot[s].chargeID, got.ok, got.ch))
       IN slot' = [slot EXCEPT ![s] =
            IF ~got.ok THEN Respond(r, StatusOK, "")
            ELSE [r EXCEPT !.ch = got.ch, !.pc = "upsert"]]
  /\ UNCHANGED <<gw, ledger, balance, started, credits>>

WebhookHandlerHTTP_HandleWebhook_Upsert(s) ==
  /\ At(s, "WebhookHandlerHTTP", "upsert")
  /\ \E dbok \in BOOLEAN :
       LET out == UpsertTransactionFromCharge(ledger, slot[s].ch, dbok) IN
       /\ ledger' = out.ledger
       /\ slot' = [slot EXCEPT ![s] = AfterUpsert(slot[s], out, StatusOK, "", StatusOK, "")]
  /\ UNCHANGED <<gw, balance, started, credits>>

\* -------------------------------------- WebhookHandler.HandleWebhook (fiber)
WebhookHandlerFiber_HandleWebhook_Begin(s, method, env) ==
  /\ Accept(s)
  /\ started' = started + 1
  /\ LET r == [Idle EXCEPT !.handler = "WebhookHandlerFiber", !.method = method, !.env = env]
     IN slot' = [slot EXCEPT ![s] =
          IF method # "POST" THEN Respond(r, StatusMethodNotAllowed, "error")
          ELSE IF env.malformed \/ env.id = "" THEN Respond(r, StatusBadRequest, "error")
          ELSE [r EXCEPT !.pc = "retrieveEvent"]]
  /\ UNCHANGED <<gw, ledger, balance, credits>>

WebhookHandlerFiber_HandleWebhook_RetrieveEvent(s) ==
  /\ At(s, "WebhookHandlerFiber", "retrieveEvent")
  /\ \E net \in BOOLEAN :
       LET got == GatewayRetrieveEvent(slot[s].env.id, net)
           r == Logged(slot[s], Retrieval("RetrieveEvent", slot[s].env.id, got.ok, NoCharge))
       IN slot' = [slot EXCEPT ![s] =
            IF ~got.ok THEN Respond(r, StatusBadRequest, "error")
            ELSE IF got.ev.data_object # "charge" \/ got.ev.data_id = ""
                 THEN Respond([r EXCEPT !.ev = got.ev], StatusOK, "")
            ELSE [r EXCEPT !.ev = got.ev, !.chargeID = got.ev.data_id, !.pc = "retrieveCharge"]]
  /\ UNCHANGED <<gw, ledger, balance, started, credits>>

WebhookHandlerFiber_HandleWebhook_RetrieveCharge(s) ==
  /\ At(s, "WebhookHandlerFiber", "retrieveCharge")
  /\ \E net \in BOOLEAN :
       LET got == GatewayRetrieveCharge(gw, slot[s].chargeID, net)
           r == Logged(slot[s], Retrieval("RetrieveCharge", slot[s].chargeID, got.ok, got.ch))
       IN slot' = [slot EXCEPT ![s] =
            IF ~got.ok THEN Respond(r, StatusInternalServerError, "")
            ELSE [r EXCEPT !.ch = got.ch, !.pc = "upsert"]]
  /\ UNCHANGED <<gw, ledger, balance, started, credits>>

WebhookHandlerFiber_HandleWebhook_Upsert(s) ==
  /\ At(s, "WebhookHandlerFiber", "upsert")
  /\ \E dbok \in BOOLEAN :
       LET out == UpsertTransactionFromCharge(ledger, slot[s].ch, dbok) IN
       /\ ledger' = out.ledger
       /\ slot' = [slot EXCEPT ![s] =
                     AfterUpsert(slot[s], out, StatusInternalServerError, "", StatusOK, "")]
  /\ UNCHANGED <<gw, balance, started, credits>>

\* ------------------------------------------- main: the /charge handler
\* The net/http server of main.go: no user, no ledger; the metadata of the
\* request goes to the gateway as it came.
ChargeMethods == {"POST", "GET", "OPTIONS"}

\* What the model sends to /charge: every sample request by POST, one request
\* by the other methods.
ChargeCalls ==
  {<<"POST", req>> : req \in PaymentRequests}
  \cup {<<m, BaseRequest>> : m \in ChargeMethods \ {"POST"}}

MainCharge_Begin(s, method, req) ==
  /\ Accept(s)
  /\ started' = started + 1
  /\ LET r0 == [Idle EXCEPT !.handler = "MainCharge", !.method = method, !.req = req]
         r1 == [r0 EXCEPT !.meta = req.metadata]
         next ==
           IF method = "OPTIONS" THEN Respond(r0, StatusOK, "")
           ELSE IF method # "POST" THEN Respond(r0, StatusMethodNotAllowed, "error")
           ELSE IF req.amount <= 0 \/ req.currency = "" THEN Respond(r0, StatusBadRequest, "error")
           ELSE CASE req.paymentType = "credit_card" ->
                       IF req.token # "" THEN [r1 EXCEPT !.pc = "createCharge", !.ref = req.token]
                       ELSE IF req.card.nil THEN Respond(r1, StatusInternalServerError, "error")
                       ELSE IF ~CardFieldsOK(req.card)
                            THEN Respond(r1, StatusInternalServerError, "error")
                       ELSE [r1 EXCEPT !.pc = "createToken"]
                  [] req.paymentType = "promptpay" ->
                       [r1 EXCEPT !.pc = "createSource", !.srcType = "promptpay"]
                  [] req.paymentType = "internet_banking" ->
                       IF req.bank = "" \/ req.returnURI = ""
                       THEN Respond(r1, StatusInternalServerError, "error")
                       ELSE [r1 EXCEPT !.pc = "createSource",
                                       !.srcType = "internet_banking_" \o req.bank]
                  [] OTHER -> Respond(r0, StatusBadRequest, "error")
     IN slot' = [slot EXCEPT ![s] = next]
  /\ UNCHANGED <<gw, ledger, balance, credits>>

MainCharge_CreateToken(s) ==
  /\ At(s, "MainCharge", "createToken")
  /\ \E net \in BOOLEAN :
       LET r == Logged(slot[s], Call("CreateToken", "", 0, "", net)) IN
       slot' = [slot EXCEPT ![s] =
                  IF net THEN [r EXCEPT !.pc = "createCharge", !.ref = "tokn_2"]
                  ELSE Respond(r, StatusInternalServerError, "error")]
  /\ UNCHANGED <<gw, ledger, balance, started, credits>>

MainCharge_CreateSource(s) ==
  /\ At(s, "MainCharge", "createSource")
  /\ \E net \in BOOLEAN :
       LET r == Logged(slot[s], Call("CreateSource", slot[s].srcType, slot[s].req.amount,
                                     slot[s].req.currency, net)) IN
       slot' = [slot EXCEPT ![s] =
                  IF net THEN [r EXCEPT !.pc = "createCharge", !.ref = "src_" \o r.srcType]
                  ELSE Respond(r, StatusInternalServerError, "error")]
  /\ UNCHANGED <<gw, ledger, balance, started, credits>>

\* createCharge and the response of the handler.
MainCharge_CreateCharge(s) ==
  /\ At(s, "MainCharge", "createCharge")
  /\ \E net \in BOOLEAN, st \in InitialStatuses(slot[s].srcType) :
       LET ok == net /\ FreeChargeIds(gw) # {}
           r == Logged(slot[s], Call("CreateCharge", slot[s].ref, slot[s].req.amount,
                                     slot[s].req.currency, ok))
           ch == GatewayNewCharge(gw, r.req.amount, r.req.currency, r.srcType, r.meta, st)
       IN  /\ ok \/ st = "pending"
           /\ gw' = IF ok THEN [gw EXCEPT ![ch.id] = ch] ELSE gw
           /\ slot' = [slot EXCEPT ![s] =
                         IF ok THEN Respond([r EXCEPT !.ch = ch, !.chargeID = ch.id],
                                            StatusOK, "charge")
                         ELSE Respond(r, StatusInternalServerError, "error")]
  /\ UNCHANGED <<ledger, balance, started, credits>>

\* ------------------------------ upsertTransactionFromCharge, called alone
\* The charges and explicit users the function is applied to: every shape of
\* the metadata value user_id, every status, every shape of the source.
SampleCharge(id, amount, status, source, meta) ==
  [id |-> id, amount |-> amount, currency |-> "THB", status |-> status,
   failure_code |-> IF status = "failed" THEN "payment_rejected" ELSE "",
   failure_message |-> IF status = "failed" THEN "rejected" ELSE "",
   has_source |-> source.present, source_type |-> source.type, metadata |-> meta]

NoSource == [present |-> FALSE, type |-> ""]
Source(t) == [present |-> TRUE, type |-> t]

UserIDValues ==
  {NilMeta, MakeMeta({}),
   MakeMeta({MetaString("user_id", <<"2">>)}),
   MakeMeta({MetaString("user_id", <<"0", "2">>)}),
   MakeMeta({MetaString("user_id", <<"x">>)}),
   MakeMeta({MetaString("user_id", <<>>)}),
   MakeMeta({MetaString("user_id", <<"4", "2", "9", "4", "9", "6", "7", "2", "9", "6">>)}),
   MakeMeta({MetaString("user_id", <<"7">>)}),
   MakeMeta({MetaNumber("user_id", 2)}),
   MakeMeta({MetaBool("user_id")})}

UpsertSamples ==
  {[charge |-> SampleCharge("chrg_1", 5000, "successful", NoSource, m), userID |-> NilUser] :
     m \in UserIDValues}
  \cup {[charge |-> SampleCharge("chrg_1", 5000, "successful", NoSource, m), userID |-> 1] :
          m \in {NilMeta, MakeMeta({MetaString("user_id", <<"2">>)}),
                 MakeMeta({MetaNumber("user_id", 2)})}}
  \cup {[charge |-> SampleCharge("chrg_2", 12345, st, Source("promptpay"), NilMeta),
         userID |-> 2] : st \in GatewayStatuses}
  \cup {[charge |-> SampleCharge("chrg_2", 150, "pending", src, NilMeta), userID |-> NilUser] :
          src \in {NoSource, Source(""), Source("internet_banking_bbl")}}

\* A caller hands the function a charge and a user.
upsertTransactionFromCharge_Begin(s, in) ==
  /\ Accept(s)
  /\ started' = started + 1
  /\ slot' = [slot EXCEPT ![s] =
                [Idle EXCEPT !.handler = "Upsert", !.pc = "upsert", !.ch = in.charge,
                             !.chargeID = in.charge.id, !.userID = in.userID,
                             !.req = [NoRequest EXCEPT !.userID = in.userID]]]
  /\ UNCHANGED <<gw, ledger, balance, credits>>

\* The statement; the caller sees the error or nil.
upsertTransactionFromCharge_Create(s) ==
  /\ At(s, "Upsert", "upsert")
  /\ \E dbok \in BOOLEAN :
       LET out == UpsertStatement(ledger, slot[s].ch, slot[s].userID, dbok) IN
       /\ ledger' = out.ledger
       /\ slot' = [slot EXCEPT ![s] = AfterUpsert(slot[s], out, NoResponse, "error",
                                                  NoResponse, "")]
  /\ UNCHANGED <<gw, balance, started, credits>>

\* ---------------------------------------------------------- GetTransaction
\* The charges whose rows the lookups meet; a charge id is an opaque string and
\* may consist of digits.
LookupCharges ==
  {[charge |-> SampleCharge("2", 700, "pending", NoSource, NilMeta), userID |-> NilUser],
   [charge |-> SampleCharge("chrg_1", 5000, "successful", NoSource, NilMeta), userID |-> 1]}

\* The characters of a charge id.
TextOf(c) ==
  CASE c = "2" -> <<"2">>
    [] c = "chrg_1" -> <<"c", "h", "r", "g", "_", "1">>
    [] c = "chrg_2" -> <<"c", "h", "r", "g", "_", "2">>
    [] OTHER -> <<>>

\* The values of the path parameter id.
LookupIds ==
  {<<>>, <<"1">>, <<"2">>, <<"3">>, <<"0", "2">>, <<"x">>,
   TextOf("chrg_1"), TextOf("chrg_2"),
   <<"1", "8", "4", "4", "6", "7", "4", "4", "0", "7",
     "3", "7", "0", "9", "5", "5", "1", "6", "1", "6">>}

\* Mutant: every identifier is looked up as a charge id.
GetTransaction_Begin_ChargeIDOnly(s, id) ==
  /\ Accept(s)
  /\ started' = started + 1
  /\ LET r == [Idle EXCEPT !.handler = "GetTransaction", !.method = "GET", !.id = id] IN
     slot' = [slot EXCEPT ![s] =
                IF id = <<>> THEN Respond(r, StatusBadRequest, "error")
                ELSE [r EXCEPT !.pc = "firstByChargeID"]]
  /\ UNCHANGED <<gw, ledger, balance, credits>>

\* GET /payments/transactions/:id, up to the choice of the first lookup.
GetTransaction_Begin(s, id) ==
  /\ Accept(s)
  /\ started' = started + 1
  /\ LET r == [Idle EXCEPT !.handler = "GetTransaction", !.method = "GET", !.id = id] IN
     slot' = [slot EXCEPT ![s] =
                IF id = <<>> THEN Respond(r, StatusBadRequest, "error")
                ELSE IF ParseUint64(id).ok THEN [r EXCEPT !.pc = "firstByID"]
                ELSE [r EXCEPT !.pc = "firstByChargeID"]]
  /\ UNCHANGED <<gw, ledger, balance, credits>>

\* First(&tx, uint(n)): an error other than not-found is answered 500, a row is
\* answered 200, not-found falls through.
GetTransaction_FirstByID(s) ==
  /\ At(s, "GetTransaction", "firstByID")
  /\ \E dbok \in BOOLEAN :
       LET r == Logged(slot[s], Call("First", "id", 0, "", dbok))
           found == {i \in 1..Len(ledger) :
                       FormatUint(ledger[i].id) = ParseUint64(r.id).digits}
       IN slot' = [slot EXCEPT ![s] =
                     IF ~dbok THEN Respond(r, StatusInternalServerError, "error")
                     ELSE IF found # {}
                          THEN Respond([r EXCEPT !.tx = ledger[CHOOSE i \in found : TRUE]],
                                       StatusOK, "transaction")
                     ELSE [r EXCEPT !.pc = "firstByChargeID"]]
  /\ UNCHANGED <<gw, ledger, balance, started, credits>>

\* Where("charge_id = ?", id).First(&tx): not-found is answered 404, another
\* error 500, a row 200.
GetTransaction_FirstByChargeID(s) ==
  /\ At(s, "GetTransaction", "firstByChargeID")
  /\ \E dbok \in BOOLEAN :
       LET r == Logged(slot[s], Call("First", "charge_id", 0, "", dbok))
           found == {i \in 1..Len(ledger) : TextOf(ledger[i].charge_id) = r.id}
       IN slot' = [slot EXCEPT ![s] =
                     IF ~dbok THEN Respond(r, StatusInternalServerError, "error")
                     ELSE IF found = {} THEN Respond(r, StatusNotFound, "error")
                     ELSE Respond([r EXCEPT !.tx = ledger[CHOOSE i \in found : TRUE]],
                                  StatusOK, "transaction")]
  /\ UNCHANGED <<gw, ledger, balance, started, credits>>

\* ------------------------------------------------------------ behaviours
\* One request at a time, every handler, every input.
First == {s \in Slots : s = 1}

Next ==
  \/ \E s \in First, req \in LedgerRequests : CreateCharge_Begin(s, req)
  \/ \E s \in First : CreateCharge_CreateToken(s)
  \/ \E s \in First : CreateCharge_CreateSource(s)
  \/ \E s \in First : CreateCharge_CreateCharge(s)
  \/ \E s \in First : CreateCharge_Upsert(s)
  \/ \E s \in First, env \in Envelopes : PaymentHandler_HandleWebhook_Begin(s, env)
  \/ \E s \in First : PaymentHandler_HandleWebhook_RetrieveEvent(s)
  \/ \E s \in First : PaymentHandler_HandleWebhook_RetrieveCharge(s)
  \/ \E s \in First : PaymentHandler_HandleWebhook_Upsert(s)
  \/ \E s \in First, env \in Envelopes : PaymentHandlerKeyed_HandleWebhook_Begin(s, env)
  \/ \E s \in First : PaymentHandlerKeyed_HandleWebhook_RetrieveEvent(s)
  \/ \E s \in First : PaymentHandlerKeyed_HandleWebhook_RetrieveCharge(s)
  \/ \E s \in First : PaymentHandlerKeyed_HandleWebhook_Upsert(s)
  \/ \E s \in First, m \in Methods, env \in Envelopes :
       WebhookHandlerHTTP_HandleWebhook_Begin(s, m, env)
  \/ \E s \in First : WebhookHandlerHTTP_HandleWebhook_RetrieveEvent(s)
  \/ \E s \in First : WebhookHandlerHTTP_HandleWebhook_RetrieveCharge(s)
  \/ \E s \in First : WebhookHandlerHTTP_HandleWebhook_Upsert(s)
  \/ \E s \in First, m \in Methods, env \in Envelopes :
       WebhookHandlerFiber_HandleWebhook_Begin(s, m, env)
  \/ \E s \in First : WebhookHandlerFiber_HandleWebhook_RetrieveEvent(s)
  \/ \E s \in First : WebhookHandlerFiber_HandleWebhook_RetrieveCharge(s)
  \/ \E s \in First : WebhookHandlerFiber_HandleWebhook_Upsert(s)
  \/ \E s \in First : UpdateBalance(s)
  \/ \E s \in First : Finish(s)
  \/ \E c \in ChargeIds : GatewayAdvance(c)

Spec == Init /\ [][Next]_vars

\* Requests in every slot at once: the direct path and the routed webhook.
NextConcurrent ==
  \/ \E s \in Slots, req \in ConcurrentRequests : CreateCharge_Begin(s, req)
  \/ \E s \in Slots : CreateCharge_CreateCharge(s)
  \/ \E s \in Slots : CreateCharge_Upsert(s)
  \/ \E s \in Slots, env \in LedgerEnvelopes : PaymentHandler_HandleWebhook_Begin(s, env)
  \/ \E s \in Slots : PaymentHandler_HandleWebhook_RetrieveEvent(s)
  \/ \E s \in Slots : PaymentHandler_HandleWebhook_RetrieveCharge(s)
  \/ \E s \in Slots : PaymentHandler_HandleWebhook_Upsert(s)
  \/ \E s \in Slots : UpdateBalance(s)
  \/ \E s \in Slots : Finish(s)
  \/ \E c \in ChargeIds : GatewayAdvance(c)

SpecConcurrent == Init /\ [][NextConcurrent]_vars

\* One request at a time: every sample charge request to both charge handlers,
\* and the routed webhook for the charges they create.
NextDispatch ==
  \/ \E s \in First, req \in PaymentRequests : CreateCharge_Begin(s, req)
  \/ \E s \in First : CreateCharge_CreateToken(s)
  \/ \E s \in First : CreateCharge_CreateSource(s)
  \/ \E s \in First : CreateCharge_CreateCharge(s)
  \/ \E s \in First : CreateCharge_Upsert(s)
  \/ \E s \in First, call \in ChargeCalls : MainCharge_Begin(s, call[1], call[2])
  \/ \E s \in First : MainCharge_CreateToken(s)
  \/ \E s \in First : MainCharge_CreateSource(s)
  \/ \E s \in First : MainCharge_CreateCharge(s)
  \/ \E s \in First, env \in LedgerEnvelopes : PaymentHandler_HandleWebhook_Begin(s, env)
  \/ \E s \in First : PaymentHandler_HandleWebhook_RetrieveEvent(s)
  \/ \E s \in First : PaymentHandler_HandleWebhook_RetrieveCharge(s)
  \/ \E s \in First : PaymentHandler_HandleWebhook_Upsert(s)
  \/ \E s \in First : UpdateBalance(s)
  \/ \E s \in First : Finish(s)
  \/ \E c \in ChargeIds : GatewayAdvance(c)

SpecDispatch == Init /\ [][NextDispatch]_vars

\* The function applied to one sample after another.
NextUpsert ==
  \/ \E s \in First, in \in UpsertSamples : upsertTransactionFromCharge_Begin(s, in)
  \/ \E s \in First : upsertTransactionFromCharge_Create(s)
  \/ \E s \in First : UpdateBalance(s)
  \/ \E s \in First : Finish(s)

SpecUpsert == Init /\ [][NextUpsert]_vars

\* Lookups of transactions between the upserts that write them.
NextLookup ==
  \/ \E s \in First, in \in LookupCharges : upsertTransactionFromCharge_Begin(s, in)
  \/ \E s \in First : upsertTransactionFromCharge_Create(s)
  \/ \E s \in First : UpdateBalance(s)
  \/ \E s \in First, id \in LookupIds : GetTransaction_Begin(s, id)
  \/ \E s \in First : GetTransaction_FirstByID(s)
  \/ \E s \in First : GetTransaction_FirstByChargeID(s)
  \/ \E s \in First : Finish(s)

SpecLookup == Init /\ [][NextLookup]_vars

\* ================================================================ claims
IsWebhook(s) == slot[s].handler \in WebhookHandlers
IsDone(s) == slot[s].pc = "done"
LastCall(r) == r.calls[Len(r.calls)]
TheRow(c) == ledger[CHOOSE i \in RowsOf(ledger, c) : TRUE]

\* The columns of a row that mirror the charge snapshot.
SnapshotFields(row) ==
  [status |-> row.status, failure_code |-> row.failure_code,
   failure_message |-> row.failure_message, amount |-> row.amount_satang,
   currency |-> row.currency, channel |-> row.channel, meta |-> row.meta]

\* The same columns as the charge snapshot gives them.
SnapshotOf(ch) ==
  [status |-> ch.status, failure_code |-> ch.failure_code,
   failure_message |-> ch.failure_message, amount |-> ch.amount,
   currency |-> ch.currency,
   channel |-> IF ch.has_source /\ ch.source_type # "" THEN ch.source_type ELSE "card",
   meta |-> ch.metadata]

\* C1: a charge is credited to the balance at most once over all observations of
\* it (the direct upsert and every webhook delivery that follows).
C1_CreditAtMostOnce == \A c \in ChargeIds : credits[c] <= 1

\* C2: of two webhook deliveries for the same charge that run at the same time,
\* at most one applies the balance credit.
C2_ConcurrentDeliveriesCreditOnce ==
  \A s \in Slots :
    IsWebhook(s) /\ IsDone(s) /\ slot[s].credited => slot[s].ch.id \notin slot[s].overlap

\* C3: the ledger never holds two rows for one charge id, and no step removes or
\* renumbers a row.
C3_OneRowPerCharge ==
  /\ [](\A c \in ChargeIds : Cardinality(RowsOf(ledger, c)) <= 1)
  /\ [][\A i \in 1..Len(ledger) :
          /\ i <= Len(ledger')
          /\ ledger'[i].id = ledger[i].id
          /\ ledger'[i].charge_id = ledger[i].charge_id]_vars

\* Two requests have written the row of the same charge, one after the other while
\* both were in flight, and a second charge has its own row.
C3_Witness ==
  /\ Len(ledger) = 2
  /\ \E s, q \in Slots :
       /\ s # q
       /\ slot[s].pc = "balance" /\ slot[s].wrote
       /\ IsDone(q) /\ slot[q].wrote /\ slot[q].before # NoTransaction
       /\ slot[s].ch.id = slot[q].ch.id

\* C4: once a request has applied a snapshot, the ledger holds exactly one row for
\* the charge and the row's snapshot columns equal the snapshot; applying a
\* snapshot the row already equals leaves row id and columns as they were.
C4_UpsertIdempotent ==
  \A s \in Slots :
    slot[s].wrote =>
      /\ Cardinality(RowsOf(ledger, slot[s].ch.id)) = 1
      /\ SnapshotFields(TheRow(slot[s].ch.id)) = SnapshotOf(slot[s].ch)
      /\ (slot[s].before # NoTransaction
            /\ SnapshotFields(slot[s].before) = SnapshotOf(slot[s].ch)
          => /\ TheRow(slot[s].ch.id).id = slot[s].before.id
             /\ SnapshotFields(TheRow(slot[s].ch.id)) = SnapshotFields(slot[s].before))

\* A snapshot has been applied to a row that already held the same snapshot.
C4_Witness ==
  \E s \in Slots :
    /\ slot[s].wrote /\ slot[s].before # NoTransaction
    /\ SnapshotFields(slot[s].before) = SnapshotOf(slot[s].ch)

\* C5: what a webhook delivery writes and credits comes from the charge the
\* gateway returned, whatever status and amount the envelope body claims: the
\* row's status, amount and currency are those of the retrieved charge, a credit
\* is applied only for a retrieved status "successful", to the user of the
\* retrieved metadata and by the retrieved amount.
C5_EnvelopeBodyIgnored ==
  \A s \in Slots :
    IsWebhook(s) /\ slot[s].wrote =>
      LET r == slot[s]
          ret == LastCall(r).ret
          row == TheRow(r.ch.id)
      IN  /\ LastCall(r).op = "RetrieveCharge" /\ LastCall(r).ok
          /\ row.status = ret.status
          /\ row.amount_satang = ret.amount
          /\ row.currency = ret.currency
          /\ row.user_id = extractUserIDFromCharge(ret, NilUser)
          /\ (r.pc = "balance" \/ r.credited => ret.status = "successful")
          /\ (r.credited =>
                balance = [r.balanceBefore EXCEPT
                             ![extractUserIDFromCharge(ret, NilUser)] =
                               AddTHB(@, amountTHB(ret.amount))])

\* A delivery whose envelope claimed "failed" and another amount has stored the
\* gateway's "successful" charge and credited it.
C5_Witness ==
  \E s \in Slots :
    /\ IsWebhook(s) /\ IsDone(s) /\ slot[s].wrote /\ slot[s].credited
    /\ slot[s].env.status = "failed" /\ TheRow(slot[s].ch.id).status = "successful"
    /\ slot[s].env.amount # TheRow(slot[s].ch.id).amount_satang

\* A webhook request handles its envelope as an event unless the handler switches
\* on the object and the object is "charge".
EventShaped(r) == r.handler # "PaymentHandler" \/ r.env.object = "event"

\* C6: a ledger write of a webhook delivery comes after a successful
\* RetrieveCharge of the extracted charge id in the same request, after a
\* successful RetrieveEvent of the envelope id when the envelope is an event, and
\* it writes the snapshot RetrieveCharge returned.
C6_WriteAfterRetrieve ==
  \A s \in Slots :
    IsWebhook(s) /\ (slot[s].wrote \/ slot[s].upsertErr \/ slot[s].pc = "upsert") =>
      LET r == slot[s]
          n == Len(r.calls)
      IN  /\ n >= 1
          /\ r.calls[n].op = "RetrieveCharge" /\ r.calls[n].ok
          /\ r.calls[n].ref = r.chargeID /\ r.calls[n].ret.id = r.chargeID
          /\ r.ch = r.calls[n].ret
          /\ (r.wrote => r.written.raw_payload = r.calls[n].ret
                         /\ r.written.charge_id = r.chargeID
                         /\ SnapshotFields(r.written) = SnapshotOf(r.calls[n].ret))
          /\ IF EventShaped(r)
             THEN /\ n = 2
                  /\ r.calls[1].op = "RetrieveEvent" /\ r.calls[1].ok
                  /\ r.calls[1].ref = r.env.id
                  /\ r.chargeID = r.ev.data_id /\ r.ev.id = r.env.id
             ELSE n = 1 /\ r.chargeID = r.env.id

\* An event envelope has been verified, its charge retrieved and written.
C6_Witness ==
  \E s \in Slots :
    /\ slot[s].handler = "PaymentHandler" /\ slot[s].env.object = "event"
    /\ slot[s].wrote /\ Len(slot[s].calls) = 2

\* C7: a delivery whose verified event has a key outside the allow-list, or whose
\* embedded object is not a charge, writes no ledger row and credits no balance.
C7_UnlistedEventIgnored ==
  \A s \in Slots :
    /\ IsWebhook(s) /\ slot[s].ev # NoEvent
    /\ (slot[s].ev.key \notin PaymentHandler_ChargeEventKeys \/ slot[s].ev.data_object # "charge")
    => ~slot[s].wrote /\ ~slot[s].credited

\* C8: a delivery whose RetrieveEvent or RetrieveCharge failed is answered with a
\* server error and writes nothing.
C8_GatewayFailureIsTransient ==
  \A s \in Slots :
    IsWebhook(s) /\ IsDone(s) /\ slot[s].calls # <<>> /\ ~LastCall(slot[s]).ok
    => slot[s].resp >= StatusInternalServerError /\ ~slot[s].wrote /\ ~slot[s].credited

\* An envelope that does not parse or has an empty id.
Malformed(env) == env.malformed \/ env.id = ""

C10_UpsertFailureIsTransient ==
  \A s \in Slots :
    IsWebhook(s) /\ IsDone(s) /\ slot[s].upsertErr => slot[s].resp >= StatusInternalServerError

\* A request to one of the two charge-creation handlers.
IsDirect(s) == slot[s].handler \in {"CreateCharge", "MainCharge"}

\* The gateway calls of request r whose operation is op, by position.
CallsOf(r, op) == {i \in 1..Len(r.calls) : r.calls[i].op = op}

\* C11: once the gateway has created the charge of a charge-creation request, the
\* request is answered 200 with that charge, also when the ledger upsert failed.
C11_CreatedChargeReported ==
  \A s \in Slots :
    IsDirect(s) /\ slot[s].ch.id # "" =>
      /\ slot[s].pc \in {"upsert", "balance", "done"}
      /\ gw[slot[s].ch.id].id = slot[s].ch.id
      /\ (IsDone(s) => slot[s].resp = StatusOK /\ slot[s].body = "charge")

\* A charge was created, its upsert failed and the request was answered.
C11_Witness ==
  \E s \in Slots :
    /\ slot[s].handler = "CreateCharge" /\ IsDone(s)
    /\ slot[s].ch.id # "" /\ slot[s].upsertErr /\ ~slot[s].wrote

\* A charge-creation request that was refused before any effect: answered with
\* an error, no gateway call, no ledger write, no balance change.
Refused(r) ==
  /\ r.pc = "done" /\ r.resp >= StatusBadRequest /\ r.body = "error"
  /\ r.calls = <<>> /\ r.ch = NoCharge
  /\ ~r.wrote /\ ~r.upsertErr /\ ~r.credited

PaymentTypes == {"credit_card", "promptpay", "internet_banking"}

\* C12: an internet_banking request with an empty bank code or an empty return
\* address is answered with an error; no CreateSource or CreateCharge call is
\* made for it and no ledger row is written.
C12_InternetBankingValidated ==
  \A s \in Slots :
    /\ IsDirect(s) /\ slot[s].method = "POST"
    /\ slot[s].req.paymentType = "internet_banking"
    /\ (slot[s].req.bank = "" \/ slot[s].req.returnURI = "")
    => Refused(slot[s])

\* An otherwise valid internet_banking request without a return address was
\* answered.
C12_Witness ==
  \E s \in Slots :
    /\ slot[s].handler = "CreateCharge" /\ IsDone(s)
    /\ slot[s].req.paymentType = "internet_banking"
    /\ slot[s].req.amount > 0 /\ slot[s].req.currency # ""
    /\ slot[s].req.bank # "" /\ slot[s].req.returnURI = ""

\* C13: a card request with neither a token nor card fields is answered with an
\* error; no CreateToken or CreateCharge call is made and nothing is written.
C13_CardNeedsTokenOrCard ==
  \A s \in Slots :
    /\ IsDirect(s) /\ slot[s].method = "POST"
    /\ slot[s].req.paymentType = "credit_card"
    /\ slot[s].req.token = "" /\ slot[s].req.card.nil
    => Refused(slot[s])

\* An otherwise valid card request with no token and no card was answered.
C13_Witness ==
  \E s \in Slots :
    /\ slot[s].handler = "CreateCharge" /\ IsDone(s)
    /\ slot[s].req.paymentType = "credit_card"
    /\ slot[s].req.amount > 0 /\ slot[s].req.currency # ""
    /\ slot[s].req.token = "" /\ slot[s].req.card.nil

\* C14: a charge request with amount <= 0, an empty currency or an unsupported
\* payment type is rejected with 400 before dispatch: no gateway call, no ledger
\* row, no balance change.
C14_RejectedBeforeDispatch ==
  \A s \in Slots :
    /\ IsDirect(s) /\ slot[s].method = "POST"
    /\ \/ slot[s].req.amount <= 0
       \/ slot[s].req.currency = ""
       \/ slot[s].req.paymentType \notin PaymentTypes
    => Refused(slot[s]) /\ slot[s].resp = StatusBadRequest

\* A request with amount 0 and a supported type, with a token, was answered.
C14_Witness ==
  \E s \in Slots :
    /\ slot[s].handler = "CreateCharge" /\ IsDone(s)
    /\ slot[s].req.amount <= 0 /\ slot[s].req.currency # ""
    /\ slot[s].req.paymentType \in PaymentTypes /\ slot[s].req.token # ""

\* C15: the charge created for a request that supplied a user identifier (in the
\* body, the X-User-ID header or the query) carries it in its metadata: resolving
\* the user from the created charge alone gives the user of the request.
C15_UserIDInMetadata ==
  \A s \in Slots :
    /\ slot[s].handler = "CreateCharge" /\ slot[s].ch.id # ""
    /\ getUserIDFromRequest(slot[s].req) # NilUser
    => extractUserIDFromCharge(slot[s].ch, NilUser) = getUserIDFromRequest(slot[s].req)

\* C16: a charge-creation request is answered with a server error exactly when
\* one of its gateway calls failed; every other refusal is a client error.
C16_FailuresClassified ==
  \A s \in Slots :
    IsDirect(s) /\ IsDone(s) /\ slot[s].resp >= StatusBadRequest =>
      (slot[s].resp >= StatusInternalServerError
         <=> slot[s].calls # <<>> /\ ~LastCall(slot[s]).ok)

\* C17: the amount and currency given to CreateSource and to CreateCharge are
\* those of the request, and so are those of the charge the gateway returns.
C17_AmountAndCurrencyPassed ==
  \A s \in Slots :
    IsDirect(s) =>
      LET r == slot[s] IN
      /\ \A i \in CallsOf(r, "CreateSource") \cup CallsOf(r, "CreateCharge") :
           r.calls[i].amount = r.req.amount /\ r.calls[i].currency = r.req.currency
      /\ (r.ch.id # "" =>
            /\ r.ch.amount = r.req.amount /\ r.ch.currency = r.req.currency
            /\ gw[r.ch.id].amount = r.req.amount /\ gw[r.ch.id].currency = r.req.currency)

\* A PromptPay charge has been created from its source.
C17_Witness ==
  \E s \in Slots :
    /\ slot[s].handler = "CreateCharge" /\ slot[s].req.paymentType = "promptpay"
    /\ slot[s].ch.id # "" /\ Len(slot[s].calls) = 2
    /\ slot[s].ch.amount # BaseRequest.amount

\* The token or source id a charge is created from, as the gateway returned it.
CreatedFrom(r) ==
  IF r.req.paymentType = "credit_card"
  THEN IF r.req.token # "" THEN [first |-> "", id |-> r.req.token]
       ELSE [first |-> "CreateToken", id |-> "tokn_2"]
  ELSE [first |-> "CreateSource", id |-> "src_" \o r.srcType]

\* C18: CreateCharge is called only after the CreateSource (or CreateToken) of
\* the same request succeeded and with the id it returned; each operation is
\* called at most once; a failed call is the last call and the request is
\* answered with an error.
C18_DispatchOrder ==
  \A s \in Slots :
    IsDirect(s) =>
      LET r == slot[s]
          n == Len(r.calls)
      IN  /\ \A op \in {"CreateToken", "CreateSource", "CreateCharge"} :
               Cardinality(CallsOf(r, op)) <= 1
          /\ \A i \in 1..n :
               ~r.calls[i].ok =>
                 /\ i = n /\ r.pc = "done" /\ r.ch = NoCharge
                 /\ r.resp = StatusInternalServerError /\ r.body = "error"
          /\ \A i \in CallsOf(r, "CreateCharge") :
               /\ r.calls[i].ref = CreatedFrom(r).id
               /\ IF CreatedFrom(r).first = "" THEN i = 1
                  ELSE /\ i = 2 /\ r.calls[1].op = CreatedFrom(r).first /\ r.calls[1].ok
                       /\ (r.calls[1].op = "CreateSource" => r.calls[1].ref = r.srcType)
          /\ n <= 2

\* An internet_banking charge has been created after its source.
C18_Witness ==
  \E s \in Slots :
    /\ slot[s].handler = "CreateCharge" /\ slot[s].req.paymentType = "internet_banking"
    /\ IsDone(s) /\ Len(slot[s].calls) = 2 /\ slot[s].calls[2].ok

\* C19: an upsert onto an existing row leaves the row's id and its user
\* reference as they were.
C19_UpsertKeepsUser ==
  \A s \in Slots :
    slot[s].wrote /\ slot[s].before # NoTransaction =>
      /\ TheRow(slot[s].ch.id).id = slot[s].before.id
      /\ TheRow(slot[s].ch.id).user_id = slot[s].before.user_id

\* C20: a webhook delivery that stored a "successful" charge whose user resolves
\* and was answered 200 has credited that user's balance.
C20_CreditNotLost ==
  \A s \in Slots :
    /\ IsWebhook(s) /\ IsDone(s) /\ slot[s].resp = StatusOK /\ slot[s].wrote
    /\ slot[s].ch.status = "successful"
    /\ extractUserIDFromCharge(slot[s].ch, NilUser) # NilUser
    => slot[s].credited

\* A balance in satang.
InSatang(b) == b.units * SatangPerTHB + b.satang

IsUpsert(s) == slot[s].handler = "Upsert"

\* C21: a balance changes only in the balance statement of an upsert whose
\* snapshot is "successful" and whose row carries a user; that user's balance
\* grows by the amount (5000 satang are 50.00) and no other balance changes; no
\* upsert with another status or without a user reaches the balance statement.
C21_BalanceOnlyForSuccessfulUser ==
  /\ [](\A s \in Slots :
          IsUpsert(s) /\ slot[s].pc = "balance" =>
            /\ slot[s].ch.status = "successful"
            /\ slot[s].written.user_id # NilUser)
  /\ [][balance' # balance =>
          \E s \in Slots :
            /\ slot[s].pc = "balance" /\ slot'[s].pc = "done"
            /\ slot[s].ch.status = "successful"
            /\ slot[s].written.user_id \in Users
            /\ \A u \in Users :
                 InSatang(balance'[u]) =
                   InSatang(balance[u])
                     + (IF u = slot[s].written.user_id THEN slot[s].ch.amount ELSE 0)]_vars

\* The upsert of a successful charge of 5000 satang has credited user 2 with
\* 50.00, and user 1 with nothing.
C21_Witness ==
  \E s \in Slots :
    /\ IsUpsert(s) /\ slot[s].credited /\ slot[s].ch.amount = 5000
    /\ slot[s].written.user_id = 2
    /\ slot[s].balanceBefore = [u \in Users |-> ZeroTHB]
    /\ balance[2] = [units |-> 50, satang |-> 0]
    /\ balance[1] = ZeroTHB

\* The user reference the metadata of a charge yields: the value of user_id when
\* it is a number or a string of digits in range, else none.
FromMetadata(m) ==
  IF m.nil \/ ~(\E x \in m.kv : x.k = "user_id") THEN NilUser
  ELSE LET v == CHOOSE x \in m.kv : x.k = "user_id" IN
       IF v.t = "float64" THEN v.n
       ELSE IF /\ v.t = "string" /\ v.s # <<>>
               /\ \A i \in 1..Len(v.s) : IsDigit(v.s[i])
               /\ FitsUint32(v.s)
            THEN DigitsValue(v.s)
            ELSE NilUser

\* C22: the row an upsert writes carries the supplied user when there is one,
\* else the user the metadata yields; when neither gives a user the upsert,
\* with the database working, returns no error and writes the row with no user.
C22_UserResolution ==
  /\ \A s \in Slots :
       IsUpsert(s) /\ slot[s].wrote =>
         slot[s].written.user_id =
           IF slot[s].req.userID # NilUser THEN slot[s].req.userID
           ELSE FromMetadata(slot[s].ch.metadata)
  /\ \A in \in UpsertSamples :
       in.userID = NilUser /\ FromMetadata(in.charge.metadata) = NilUser =>
         LET out == UpsertStatement(ledger, in.charge, in.userID, TRUE) IN
         /\ ~out.err
         /\ RowBefore(out.ledger, in.charge.id).user_id = NilUser
         /\ RowBefore(out.ledger, in.charge.id).status = in.charge.status

\* An upsert with user 1 supplied and user_id "2" in the metadata wrote user 1.
C22_Witness ==
  \E s \in Slots :
    /\ IsUpsert(s) /\ slot[s].wrote /\ slot[s].req.userID = 1
    /\ FromMetadata(slot[s].ch.metadata) = 2
    /\ slot[s].written.user_id = 1
    /\ TheRow(slot[s].ch.id).user_id = 1

\* C23: the channel an upsert stores is the source type of the charge when the
\* charge has a source of non-empty type, and "card" otherwise.
C23_Channel ==
  \A s \in Slots :
    IsUpsert(s) /\ slot[s].wrote =>
      /\ slot[s].written.channel =
           IF slot[s].ch.has_source /\ slot[s].ch.source_type # ""
           THEN slot[s].ch.source_type ELSE "card"
      /\ IsDone(s) => TheRow(slot[s].ch.id).channel = slot[s].written.channel

\* A charge whose source has an empty type was stored with channel "card".
C23_Witness ==
  \E s \in Slots :
    /\ IsUpsert(s) /\ slot[s].wrote /\ IsDone(s)
    /\ slot[s].ch.has_source /\ slot[s].ch.source_type = ""
    /\ TheRow(slot[s].ch.id).channel = "card"

\* C24: a reconciliation never replaces a row written from a newer snapshot by
\* an older one: a row that was "successful" before a write is "successful"
\* after it (the gateway never leaves a settled status).
C24_NoStaleOverwrite ==
  \A s \in Slots :
    slot[s].wrote /\ slot[s].before.status \in {"successful", "failed"} =>
      slot[s].written.status = slot[s].before.status

\* C25: a request whose insert-or-update failed changes no balance, and at the
\* moment a request credits a balance the ledger holds a row of its charge with
\* status "successful".
C25_CreditAfterSuccessfulWrite ==
  /\ [](\A s \in Slots : slot[s].credited => slot[s].wrote /\ ~slot[s].upsertErr)
  /\ [][\A s \in Slots :
          slot[s].pc = "balance" /\ slot'[s].credited =>
            /\ RowsOf(ledger, slot[s].ch.id) # {}
            /\ RowBefore(ledger, slot[s].ch.id).status = "successful"]_vars

\* C26: a step changes the ledger row of a charge id only if it is the upsert
\* of a request for that charge id; the rows of all other charge ids stay.
C26_UpsertsIndependent ==
  [][\A c \in ChargeIds :
       RowBefore(ledger', c) # RowBefore(ledger, c) =>
         \E s \in Slots :
           /\ slot[s].pc = "upsert" /\ slot'[s].pc # "upsert"
           /\ slot[s].ch.id = c]_vars

\* A request has updated the existing row of its charge while the ledger holds
\* the row of another charge.
C26_Witness ==
  \E s \in Slots :
    /\ slot[s].wrote /\ slot[s].before # NoTransaction
    /\ \E i \in 1..Len(ledger) : ledger[i].charge_id # slot[s].ch.id
    /\ TheRow(slot[s].ch.id).status = slot[s].written.status

\* A field of the card map that is there, and one that reads as an integer.
Present(f) == f.t # "absent"
ReadsAsInt(f) ==
  \/ f.t = "float64"
  \/ /\ f.t = "string" /\ f.s # <<>>
     /\ \A i \in 1..Len(f.s) : IsDigit(f.s[i]) \/ (i = 1 /\ Len(f.s) > 1 /\ f.s[i] \in {"+", "-"})

\* The card of a request passes the validation of the fallback path.
ValidCard(card) ==
  /\ Present(card.name) /\ Present(card.number)
  /\ ReadsAsInt(card.expiration_month) /\ ReadsAsInt(card.expiration_year)
  /\ card.security_code.t \in {"string", "float64"}

\* C27: a card request without a token whose card lacks one of name, number,
\* expiry month, expiry year or security code, or has an unreadable expiry or
\* security code, is answered with an error and no CreateToken call is made.
C27_CardFieldsValidated ==
  \A s \in Slots :
    /\ IsDirect(s) /\ slot[s].method = "POST"
    /\ slot[s].req.amount > 0 /\ slot[s].req.currency # ""
    /\ slot[s].req.paymentType = "credit_card"
    /\ slot[s].req.token = "" /\ ~slot[s].req.card.nil
    /\ ~ValidCard(slot[s].req.card)
    => /\ CallsOf(slot[s], "CreateToken") = {}
       /\ (IsDone(s) => Refused(slot[s]))

IsLookup(s) == slot[s].handler = "GetTransaction"

\* An identifier that reads as an unsigned integer of 64 bits.
IsUnsigned(id) == id # <<>> /\ (\A i \in 1..Len(id) : IsDigit(id[i])) /\ FitsUint64(id)

\* The rows with the surrogate id an identifier denotes, and the rows with the
\* identifier as charge id.
RowsByID(id) ==
  {i \in 1..Len(ledger) :
     /\ IsUnsigned(id) /\ Len(StripZeros(id)) < Len(MaxUint32)
     /\ ledger[i].id = DigitsValue(StripZeros(id))}
RowsByChargeID(id) == {i \in 1..Len(ledger) : TextOf(ledger[i].charge_id) = id}

\* C28: a lookup whose statements the database answered returns the row with
\* the surrogate id when the identifier is an unsigned integer and that row
\* exists, else the row with the identifier as charge id, and 404 only when
\* there is neither; no step of a lookup changes the ledger or a balance.
C28_GetTransaction ==
  /\ [](\A s \in Slots :
          /\ IsLookup(s) /\ IsDone(s) /\ slot[s].id # <<>>
          /\ \A k \in 1..Len(slot[s].calls) : slot[s].calls[k].ok
          => IF RowsByID(slot[s].id) # {}
             THEN /\ slot[s].resp = StatusOK
                  /\ \E i \in RowsByID(slot[s].id) : slot[s].tx = ledger[i]
             ELSE IF RowsByChargeID(slot[s].id) # {}
             THEN /\ slot[s].resp = StatusOK
                  /\ \E i \in RowsByChargeID(slot[s].id) : slot[s].tx = ledger[i]
             ELSE slot[s].resp = StatusNotFound /\ slot[s].tx = NoTransaction)
  /\ [][(\E s \in Slots : slot'[s] # slot[s] /\ slot'[s].handler = "GetTransaction")
          => ledger' = ledger /\ balance' = balance]_vars

\* The identifier "2" returned the row with surrogate id 2, of charge chrg_1,
\* while another row has the charge id "2".
C28_Witness ==
  \E s \in Slots :
    /\ IsLookup(s) /\ IsDone(s) /\ slot[s].id = <<"2">>
    /\ slot[s].resp = StatusOK /\ slot[s].tx.id = 2 /\ slot[s].tx.charge_id = "chrg_1"
    /\ RowsByChargeID(<<"2">>) # {}
    /\ balance[1] # ZeroTHB

====
